---- MODULE Spec2Model ----
(***************************************************************************)
(* A verification model of maya-implicit-skinning.                         *)
(*                                                                         *)
(* The parts of the repository that are modelled have specifications of    *)
(* their own over the same variables (the variables of the other parts     *)
(* stay at their idle values):                                             *)
(*                                                                         *)
(*   SpecLoad     the two hierarchy loaders: fill_skeleton of the FBX      *)
(*                parser (src/parsers/fbx_loader.cpp) and                  *)
(*                Abs_skeleton::load, loadBones and ImplicitCommand::init  *)
(*                of the implicit surface command (src/unnamed/part_000).  *)
(*   SpecNode     the deformer node ImplicitSkinDeformer                   *)
(*                (src/maya/plugin.cpp): its attributes, the three update  *)
(*                computations, deform and the commands, from a new node.  *)
(*   SpecScene    the same node and operations, from a node that was set   *)
(*                up on a mesh with a chain of joints and sampled.         *)
(*   SpecCorrect  the correction loop of deform_mesh for one vertex.       *)
(*   SpecSelect   the sample selection that sample_all_joints runs for     *)
(*                every bone.                                              *)
(*   SpecMesh     the material groups that fill_mesh of the FBX parser     *)
(*                makes for a mesh node.                                   *)
(*   SpecStored   the node as a scene file gives it, with a stored base    *)
(*                potential, and the computation of meshUpdate.            *)
(*   SpecPlugin   ImplicitSkinDeformer::initialize statement by statement, *)
(*                then a node is created and lives as in SpecNode.         *)
(*                                                                         *)
(* Animated_mesh_ctrl, BoneSet, Bone, Skeleton, SampleSet and              *)
(* VertToBoneInfo are not in src/: what they do is taken from spec.md.     *)
(* DagHelpers::MayaDependencies is not in src/ either.                     *)
(*                                                                         *)
(* C++ vectors are sequences; a C++ index i is position i + 1.             *)
(* Calls into the Maya API are taken to succeed.                           *)
(***************************************************************************)
EXTENDS Integers, Sequences, FiniteSets, TLC

VARIABLES
    fbxTree,      \* FBX scene: fbxTree[n] is the FBX parent node of node n, 0 for the root
    fbxSkel,      \* the Loader::Abs_skeleton filled by Fbx_file::get_skeleton
    influences,   \* skin cluster: logical index -> [parent, pos] of each influence object
    cmd,          \* what one run of ImplicitCommand::init (part_000) did
    attrs,        \* deformer node: the attributes in its data block
    dirty,        \* deformer node: the plugs that are to be computed again
    deformer,     \* deformer node: its boneSet, skeleton, mesh and animMesh
    last,         \* deformer node: the last operation and what it gave
    edits,        \* deformer node: the number of attribute changes and commands so far
    correction,   \* deform_mesh: the correction loop of one vertex
    selection,    \* sample selection: the vertices chosen for each bone
    plugin,       \* ImplicitSkinDeformer::initialize: how far it is and what it declared
    fbxMesh       \* FBX scene: the materials of a mesh node and the groups fill_mesh made

loadVars == <<fbxTree, fbxSkel, influences, cmd>>

nodeVars == <<attrs, dirty, deformer, last, edits>>

coreVars == <<correction, selection, plugin, fbxMesh>>

vars == <<loadVars, nodeVars, coreVars>>

----------------------------------------------------------------------------
(* Bounds *)

\* Largest number of FBX skeleton nodes in a scene.
MaxNodes == 4
\* Largest logical index of an influence of the skin cluster.
MaxLogical == 2
\* Largest logical index of an element of the joints[] attribute of the node.
MaxJointIdx == 1
\* Largest number of vertices of an input mesh.
MaxVerts == 2
\* Largest number of attribute changes and sampling commands made on the node.
MaxEdits == 2
\* Largest position of a vertex on the line the correction loop moves it on.
MaxPos == 2
\* Largest potential of the field.
MaxPotential == 3
\* The iteration cap of the correction loop, a configured value.
MaxIterations == 2
\* Largest junction radius, in half bone lengths.
MaxJunctionRadius == 2
\* Largest number of polygons of an FBX mesh.
MaxPolygons == 3
\* Largest index of a material of an FBX mesh node.
MaxMaterialIdx == 1

----------------------------------------------------------------------------
(* Generic helpers *)

Range(s) == {s[i] : i \in DOMAIN s}

Max(S) == CHOOSE x \in S : \A y \in S : y <= x

Min(S) == CHOOSE x \in S : \A y \in S : x <= y

\* The elements of a finite set of integers in increasing order (the iteration
\* order of a std::map keyed by int).
RECURSIVE SortedSeq(_)
SortedSeq(S) == IF S = {} THEN <<>> ELSE <<Min(S)>> \o SortedSeq(S \ {Min(S)})

\* 0, 1, ..., n - 1
RECURSIVE Iota(_)
Iota(n) == IF n = 0 THEN <<>> ELSE Append(Iota(n - 1), n - 1)

\* Largest r with r * r <= n.
RECURSIVE ISqrtFrom(_, _)
ISqrtFrom(n, r) == IF (r + 1) * (r + 1) > n THEN r ELSE ISqrtFrom(n, r + 1)

ISqrt(n) == ISqrtFrom(n, 0)

----------------------------------------------------------------------------
(* FBX loader: fill_skeleton, src/parsers/fbx_loader.cpp *)

\* The FBX node trees with n nodes: one root (parent 0), every node reaches it.
RECURSIVE ReachesRoot(_, _, _)
ReachesRoot(tree, n, fuel) ==
    IF tree[n] = 0 THEN TRUE
    ELSE IF fuel = 0 THEN FALSE
    ELSE ReachesRoot(tree, tree[n], fuel - 1)

FbxTrees(n) ==
    {t \in [1..n -> 0..n] :
        /\ Cardinality({i \in 1..n : t[i] = 0}) = 1
        /\ \A i \in 1..n : ReachesRoot(t, i, n)}

\* node->GetChild(0..GetChildCount()-1)
FbxChildren(tree, node) == SortedSeq({c \in DOMAIN tree : tree[c] = node})

FbxRoot(tree) == CHOOSE r \in DOMAIN tree : tree[r] = 0

EmptyAbsSkel == [_bones |-> <<>>, _parents |-> <<>>, _sons |-> <<>>, _root |-> -1]

\* A plausible slip: the parent is pushed after bone_idx is known and bone_idx,
\* not bone_parent, is stored.
PushBoneOwnIndex(skel, bone_parent, node) ==
    [skel EXCEPT !._bones = Append(@, node),
                 !._parents = Append(@, Len(skel._bones)),
                 !._sons = Append(@, <<>>),
                 !._root = IF bone_parent < 0 THEN 0 ELSE @]

\* fill_skeleton up to the recursion: the root mark and the three push_backs.
PushBone(skel, bone_parent, node) ==
    [skel EXCEPT !._bones = Append(@, node),
                 !._parents = Append(@, bone_parent),
                 !._sons = Append(@, <<>>),
                 !._root = IF bone_parent < 0 THEN 0 ELSE @]

RECURSIVE fill_skeleton(_, _, _, _)
RECURSIVE FillChildren(_, _, _, _, _)

\* The loop over the children of the node whose bone is bone_idx; acc is
\* <<skel, sons>> so far.
FillChildren(acc, tree, bone_idx, children, c) ==
    IF c > Len(children) THEN acc
    ELSE LET r == fill_skeleton(acc[1], tree, bone_idx, children[c])
         IN  FillChildren(<<r[1], Append(acc[2], r[2])>>, tree, bone_idx, children, c + 1)

\* fill_skeleton(skel, ptr_to_idx, bone_parent, node): <<skel afterwards, bone_idx>>.
fill_skeleton(skel, tree, bone_parent, node) ==
    LET pushed   == PushBone(skel, bone_parent, node)
        bone_idx == Len(pushed._bones) - 1
        done     == FillChildren(<<pushed, <<>>>>, tree, bone_idx, FbxChildren(tree, node), 1)
    IN  <<[done[1] EXCEPT !._sons[bone_idx + 1] = done[2]], bone_idx>>

\* Fbx_file::get_skeleton, the hierarchy part.
FbxGetSkeleton ==
    /\ fbxTree # <<>>
    /\ fbxSkel = EmptyAbsSkel
    /\ fbxSkel' = fill_skeleton(fbxSkel, fbxTree, -1, FbxRoot(fbxTree))[1]
    /\ UNCHANGED <<fbxTree, influences, cmd, nodeVars, coreVars>>

----------------------------------------------------------------------------
(* Implicit surface command: Abs_skeleton::load, loadBones and              *)
(* ImplicitCommand::init, src/unnamed/part_000                              *)

\* World positions of influence objects, in units of 0.0000001.
Points == {<<0, 0, 0>>, <<5, 0, 0>>, <<0, 20, 0>>}

\* Transfo::identity().get_translation()
Origin == <<0, 0, 0>>

\* 0.000001f in units of 0.0000001.
MinBoneLength == 10

\* Vec3_cu(1,0,0)
DefaultDir == <<1, 0, 0>>

LogicalIdx == 0..MaxLogical

\* What getSkinClusterInfluenceObjects and loadSkeletonHierarchyFromSkinCluster hand
\* to Abs_skeleton::load: for every influence logical index, the world position of
\* the influence object and its parent as an index into the list of influences
\* (-1: none).
InfluenceSets ==
    UNION {[L -> [parent : -1..(Cardinality(L) - 1), pos : Points]] : L \in SUBSET LogicalIdx}

\* logicalIndexes and parentIndexes of Abs_skeleton::load.
LogicalIndexes(infl) == SortedSeq(DOMAIN infl)

ParentIndexes(infl) ==
    [n \in 1..Cardinality(DOMAIN infl) |-> infl[LogicalIndexes(infl)[n]].parent]

\* Whether list index i reaches -1 by following parentIndexes in at most fuel steps.
RECURSIVE ReachesNoParent(_, _, _)
ReachesNoParent(parentIndexes, i, fuel) ==
    IF i = -1 THEN TRUE
    ELSE IF fuel = 0 THEN FALSE
    ELSE ReachesNoParent(parentIndexes, parentIndexes[i + 1], fuel - 1)

HasCycle(parentIndexes) ==
    \E i \in 0..(Len(parentIndexes) - 1) :
        ~ReachesNoParent(parentIndexes, i, Len(parentIndexes))

\* The ways to complete placed, a parents-first order of some of the list
\* indexes, to one of all of them.
RECURSIVE OrdersFrom(_, _)
OrdersFrom(parentIndexes, placed) ==
    LET n    == Len(parentIndexes)
        next == {i \in 0..(n - 1) :
                    /\ i \notin Range(placed)
                    /\ parentIndexes[i + 1] = -1 \/ parentIndexes[i + 1] \in Range(placed)}
    IN  IF Len(placed) = n THEN {placed}
        ELSE UNION {OrdersFrom(parentIndexes, Append(placed, i)) : i \in next}

\* MiscUtils::getHierarchyOrder: an order of the list indexes with every parent
\* before its children; none when the hierarchy has a cycle.
HierarchyOrders(parentIndexes) ==
    IF HasCycle(parentIndexes) THEN {} ELSE OrdersFrom(parentIndexes, <<>>)

\* The indexes of _bones that no influence fills: they keep a default-constructed
\* Transfo.
GapIndexes(infl) ==
    IF DOMAIN infl = {} THEN {} ELSE (0..Max(DOMAIN infl)) \ DOMAIN infl

EmptyLoaderSkel == [_bones |-> <<>>, _parents |-> <<>>, dagPaths |-> <<>>]

\* std::vector::resize(size, value) that never shrinks; fill[i] is the value of
\* the new element of C++ index i.
GrowTo(v, size, fill) ==
    IF size <= Len(v) THEN v
    ELSE v \o [k \in 1..(size - Len(v)) |-> fill[Len(v) + k - 1]]

\* The body of the loop of Abs_skeleton::load for list index idx.  gap[i] is the
\* translation a default-constructed Transfo of index i happens to hold.
InstallJoint(skel, infl, idx, gap) ==
    LET logicalIndex == LogicalIndexes(infl)[idx + 1]
        size         == Max({Len(skel._parents), logicalIndex + 1})
        grown        == [_bones   |-> GrowTo(skel._bones, size,
                                             [i \in 0..size |-> IF i \in DOMAIN gap THEN gap[i] ELSE Origin]),
                         _parents |-> GrowTo(skel._parents, size, [i \in 0..size |-> -1]),
                         dagPaths |-> GrowTo(skel.dagPaths, size, [i \in 0..size |-> -1])]
    IN  [grown EXCEPT !._bones[logicalIndex + 1]   = infl[logicalIndex].pos,
                      !._parents[logicalIndex + 1] = ParentIndexes(infl)[idx + 1],
                      !.dagPaths[logicalIndex + 1] = logicalIndex]

RECURSIVE LoadLoop(_, _, _, _, _)
LoadLoop(skel, infl, order, k, gap) ==
    IF k > Len(order) THEN skel
    ELSE LoadLoop(InstallJoint(skel, infl, order[k], gap), infl, order, k + 1, gap)

\* A plausible slip: the joints are installed in list order and the hierarchy
\* order is only used for the cycle test.
LoadOrderIgnored(infl, order) == Iota(Len(order))

\* The list indexes in the order in which the loop of Abs_skeleton::load
\* installs them.
LoadOrder(infl, order) == order

\* Abs_skeleton::load.  order is the result of getHierarchyOrder when there is one.
AbsSkeletonLoad(infl, order, gap) ==
    IF HasCycle(ParentIndexes(infl))
    THEN [status |-> "kFailure", skel |-> EmptyLoaderSkel, installed |-> <<>>]
    ELSE [status    |-> "kSuccess",
          skel      |-> LoadLoop(EmptyLoaderSkel, infl, LoadOrder(infl, order), 1, gap),
          installed |-> LoadOrder(infl, order)]

\* Vec3_cu: difference and norm (rounded down, in units of 0.0000001).
VecSub(a, b) == <<a[1] - b[1], a[2] - b[2], a[3] - b[3]>>

Norm(v) == ISqrt(v[1] * v[1] + v[2] * v[2] + v[3] * v[3])

\* A plausible slip: only a bone of length exactly zero is given the minimal
\* length and the default direction.
ClampBoneZeroOnly(bone) ==
    IF bone.length = 0
    THEN [bone EXCEPT !.length = MinBoneLength, !.dir = DefaultDir]
    ELSE bone

\* The end of the third loop of loadBones: a bone shorter than 0.000001 gets
\* that length and the direction (1,0,0).
ClampBone(bone) ==
    IF bone.length < MinBoneLength
    THEN [bone EXCEPT !.length = MinBoneLength, !.dir = DefaultDir]
    ELSE bone

\* The BoneItem loadBones makes for loader index idx.  Bone ids are given out in
\* creation order from 0, so the bone of loader index idx has id idx.
\*   parent: the bone id of the bone whose loader index is skel._parents[idx]
BoneItemOf(skel, idx) ==
    LET loader_parent_idx == skel._parents[idx + 1]
        parent == IF loader_parent_idx # -1 THEN loader_parent_idx ELSE -1
        org    == IF parent # -1 THEN skel._bones[parent + 1] ELSE Origin
        end    == skel._bones[idx + 1]
        dir    == VecSub(end, org)
        length == Norm(dir)
    IN  [bone    |-> ClampBone([org |-> org, dir |-> dir, length |-> length]),
         parent  |-> parent,
         dagPath |-> skel.dagPaths[idx + 1]]

RECURSIVE LoadBonesFrom(_, _, _)
LoadBonesFrom(skel, idx, items) ==
    IF idx >= Len(skel._bones) THEN items
    ELSE LoadBonesFrom(skel, idx + 1, Append(items, BoneItemOf(skel, idx)))

\* loadBones: one BoneItem per entry of skel._bones; the item of bone id b is at
\* position b + 1.
loadBones(skel) == LoadBonesFrom(skel, 0, <<>>)

\* Skeleton::get_bone_ids: the ids of the bones the skeleton was built from.
get_bone_ids(bones) == Iota(Len(bones))

\* The two loops "for(Bone::Id bone_id: skeleton->get_bone_ids())
\* samples.choose_hrbf_samples(...)": the bone ids the sampling is run for, in order.
SampledBoneIds(bones) == get_bone_ids(bones)

\* The loop of ImplicitCommand::init that creates one ImplicitSurface per
\* BoneItem: parent_index as pushed for the bone of id b, when the surfaces of
\* the bones of smaller id exist already (sourceBoneIdToIdx has their ids).
ParentIndexOf(items, b) ==
    LET sourceBoneIdToIdx == 0..(b - 1)
        parent == items[b + 1].parent
    IN  IF parent # -1 /\ parent \in sourceBoneIdToIdx
        THEN Cardinality({k \in sourceBoneIdToIdx : k < parent})
        ELSE -1

RECURSIVE ParentIndexFrom(_, _, _)
ParentIndexFrom(items, b, parent_index) ==
    IF b >= Len(items) THEN parent_index
    ELSE ParentIndexFrom(items, b + 1, Append(parent_index, ParentIndexOf(items, b)))

CmdIdle ==
    [pc |-> "off", loadStatus |-> "kSuccess", skel |-> EmptyLoaderSkel, installed |-> <<>>,
     bones |-> <<>>, skeletonParents |-> <<>>, sampled |-> <<>>, blend |-> FALSE,
     surfaces |-> <<>>, parent_index |-> <<>>, status |-> "kSuccess"]

\* ImplicitCommand::init of the implicit surface command.  The status of
\* abs_skeleton.load is not looked at.
ImplicitCommandInit ==
    /\ cmd.pc = "ready"
    /\ \E gap \in [GapIndexes(influences) -> Points] :
       \E order \in IF HasCycle(ParentIndexes(influences))
                    THEN {<<>>}
                    ELSE HierarchyOrders(ParentIndexes(influences)) :
       \E loaded \in {AbsSkeletonLoad(influences, order, gap)} :
       \E items \in {loadBones(loaded.skel)} :
              cmd' = [pc              |-> "done",
                      loadStatus      |-> loaded.status,
                      skel            |-> loaded.skel,
                      installed       |-> loaded.installed,
                      bones           |-> items,
                      skeletonParents |-> loaded.skel._parents,
                      sampled         |-> SampledBoneIds(items),
                      blend           |-> TRUE,
                      surfaces        |-> Iota(Len(items)),
                      parent_index    |-> ParentIndexFrom(items, 0, <<>>),
                      status          |-> "kSuccess"]
    /\ UNCHANGED <<fbxTree, fbxSkel, influences, nodeVars, coreVars>>

----------------------------------------------------------------------------
(* The deformer node ImplicitSkinDeformer (src/maya/plugin.cpp) *)

\* Logical indexes of the elements of the joints[] array attribute.
JointIdx == 0..MaxJointIdx

\* The logical indices an element of joints[] can come to have: one more than
\* the joints of the hierarchy, for an element that is created past them.
EntryIdx == 0..MaxJointIdx + 1

\* What a read past the end of boneSet.bones gives: no bone at all, the run
\* ends (Crash), or something taken for a bone, with any id.
Crash == -1

Strays == {Crash} \cup EntryIdx

\* The values given to hrbfRadius, to the frame of the animation and to the
\* number of points (and of normals) of a sample set.
Radii == {0, 1}

Frames == {0, 1}

\* The HRBF fit needs four samples: a bone with fewer stays without field.
MinFitSamples == 4

SampleCounts == {0, MinFitSamples}

\* What choose_hrbf_samples may give: a number of samples for each bone id.
SampleChoices == [EntryIdx -> SampleCounts]

\* The input geometry: a mesh of some number of vertices, or something that is
\* not a mesh.
NotAMesh == [isMesh |-> FALSE, nverts |-> 0]

Geometries == {NotAMesh} \cup {[isMesh |-> TRUE, nverts |-> n] : n \in 1..MaxVerts}

\* An element of joints[] with the defaults given by initialize().
DefaultJoint == [parentIdx |-> -1, points |-> 0, normals |-> 0, hrbfRadius |-> 0]

\* A Transfo is told by where it comes from: the bind pose, or the matrix of
\* joint logicalIndex at a frame.
Identity == <<-1, 0>>

JointTransform(logicalIndex, frame) == <<logicalIndex, frame>>

\* The plugs whose computation is modelled.
Plugs == {"skeletonUpdate", "meshUpdate", "sampleSetUpdate", "outputGeom"}

\* The dependencies declared by initialize() with dep.add(from, to).
DepEdges ==
    { <<"parentIdx", "skeletonUpdate">>, <<"influenceBindMatrix", "skeletonUpdate">>,
      <<"skeletonUpdate", "meshUpdate">>, <<"basePotential", "meshUpdate">>,
      <<"baseGradient", "meshUpdate">>, <<"input", "meshUpdate">>,
      <<"inputGeom", "meshUpdate">>,
      <<"influenceBindMatrix", "sampleSetUpdate">>, <<"point", "sampleSetUpdate">>,
      <<"normal", "sampleSetUpdate">>, <<"hrbfRadius", "sampleSetUpdate">>,
      <<"skeletonUpdate", "sampleSetUpdate">>,
      <<"matrix", "outputGeom">>, <<"skeletonUpdate", "outputGeom">>,
      <<"meshUpdate", "outputGeom">>,
      <<"sampleSetUpdate", "visualizationGeomUpdate">>,
      <<"visualizationGeomUpdate", "visualizationGeom">> }

RECURSIVE AffectedBy(_)
AffectedBy(S) ==
    LET T == S \cup {e[2] : e \in {d \in DepEdges : d[1] \in S}}
    IN  IF T = S THEN S ELSE AffectedBy(T)

\* The modelled plugs that a change of attribute attr makes dirty.
Affected(attr) == (AffectedBy({attr}) \ {attr}) \cap Plugs

\* The attributes of MPxDeformerNode: they exist before initialize() runs.
Inherited == {"input", "inputGeom", "outputGeom"}

\* The statements of initialize() in their order: the creation of an attribute
\* (create and addAttribute), dep.add(from, to), and dep.apply().
InitializeBody ==
    << <<"create", "influenceBindMatrix">>, <<"create", "parentIdx">>,
       <<"create", "matrix">>, <<"create", "point">>, <<"create", "normal">>,
       <<"create", "hrbfRadius">>, <<"create", "joints">>,
       <<"create", "skeletonUpdate">>,
       <<"add", "parentIdx", "skeletonUpdate">>,
       <<"add", "influenceBindMatrix", "skeletonUpdate">>,
       <<"create", "meshUpdate">>,
       <<"add", "skeletonUpdate", "meshUpdate">>,
       <<"add", "basePotential", "meshUpdate">>,
       <<"add", "baseGradient", "meshUpdate">>,
       <<"add", "input", "meshUpdate">>,
       <<"add", "inputGeom", "meshUpdate">>,
       <<"create", "sampleSetUpdate">>,
       <<"add", "influenceBindMatrix", "sampleSetUpdate">>,
       <<"add", "point", "sampleSetUpdate">>,
       <<"add", "normal", "sampleSetUpdate">>,
       <<"add", "hrbfRadius", "sampleSetUpdate">>,
       <<"add", "skeletonUpdate", "sampleSetUpdate">>,
       <<"create", "basePotential">>, <<"create", "baseGradient">>,
       <<"add", "matrix", "outputGeom">>,
       <<"add", "skeletonUpdate", "outputGeom">>,
       <<"add", "meshUpdate", "outputGeom">>,
       <<"create", "visualizationGeomUpdate">>,
       <<"add", "sampleSetUpdate", "visualizationGeomUpdate">>,
       <<"create", "visualizationGeom">>,
       <<"add", "visualizationGeomUpdate", "visualizationGeom">>,
       <<"apply">> >>

\* The attributes that the statements before statement pc created.
CreatedBefore(pc) ==
    {InitializeBody[k][2] : k \in {j \in 1..pc - 1 : InitializeBody[j][1] = "create"}}

\* The dep.add statements that name an attribute which is created later.
EarlyDeclarations ==
    {k \in DOMAIN InitializeBody :
        /\ InitializeBody[k][1] = "add"
        /\ {InitializeBody[k][2], InitializeBody[k][3]} \ (Inherited \cup CreatedBefore(k)) # {}}

\* The C++ members of a node that has computed nothing yet.
\* Objects made by load_skeleton are told by the load that made them: 1 is the
\* last run of load_skeleton, 0 is a run before it or none.  bonesOf is the
\* load the bones of boneSet come from, skel.id the load that made the
\* Skeleton, skel.bonesOf the load of the bones it was built on,
\* animMesh.skelOf the Skeleton the Animated_mesh_ctrl was built on.
NoSkeleton == [loaded |-> FALSE, parents |-> <<>>, data |-> <<>>, id |-> 0, bonesOf |-> 0]

NoMesh == [loaded |-> FALSE, nverts |-> 0]

\* The base potential of an Animated_mesh_ctrl: the potential of every vertex
\* and its gradient.
NoBasePotential == [size |-> 0, loaded |-> FALSE, values |-> <<>>, gradient |-> <<>>]

NoAnimMesh == [live |-> FALSE, nverts |-> 0, basePotential |-> NoBasePotential, skelOf |-> 0]

NewNode == [bones |-> <<>>, skel |-> NoSkeleton, mesh |-> NoMesh, animMesh |-> NoAnimMesh,
            bonesOf |-> 0]

\* A new run of load_skeleton begins: what there is comes from a load before it.
Earlier(m) ==
    [m EXCEPT !.node.bonesOf = 0, !.node.skel.id = 0, !.node.skel.bonesOf = 0,
              !.node.animMesh.skelOf = 0]

\* A bone as BoneSet::load creates it.
FreshBone == [samples |-> 0, hrbf |-> FALSE, hrbfRadius |-> 0, fit |-> <<>>, tr |-> Identity]

RECURSIVE NewBones(_)
NewBones(n) == IF n = 0 THEN <<>> ELSE Append(NewBones(n - 1), FreshBone)

\* new Animated_mesh_ctrl(mesh, skel): no base potential yet.
NewAnimMesh(mesh, skel) ==
    [live |-> TRUE, nverts |-> mesh.nverts, basePotential |-> NoBasePotential, skelOf |-> skel.id]

\* The transforms of the bones, by bone id: what update_bones_data hands to the
\* evaluation of the field.
RECURSIVE BoneTransforms(_, _)
BoneTransforms(bones, n) ==
    IF n = 0 THEN <<>> ELSE Append(BoneTransforms(bones, n - 1), bones[n].tr)

\* A handler works on a record m of the data block (attrs, dirty), the members
\* of the node (node) and a trace of what it did: the calls, the transforms
\* deform_mesh evaluated with, whether output positions were written, and the
\* bone ids handed to choose_hrbf_samples.  It gives back a status and m.
Ret(st, m) == [st |-> st, m |-> m]

Call(m, name) == [m EXCEPT !.calls = Append(@, name)]

\* The elements of joints[] in physical order: the logical index of each.
ElementIndexes(joints) == SortedSeq(DOMAIN joints)

\* createSkeleton: the loop over the elements of joints[].
RECURSIVE CreateSkeletonLoop(_, _, _)
CreateSkeletonLoop(skeleton, joints, elements) ==
    IF elements = <<>> THEN skeleton
    ELSE LET logicalIndex == Head(elements)
             size         == logicalIndex + 1
             grown        == [_bones   |-> GrowTo(skeleton._bones, size,
                                                  [i \in 0..size |-> "default"]),
                              _parents |-> GrowTo(skeleton._parents, size,
                                                  [i \in 0..size |-> 0])]
         IN  CreateSkeletonLoop(
                 [grown EXCEPT !._bones[logicalIndex + 1]   = "bind",
                               !._parents[logicalIndex + 1] = joints[logicalIndex].parentIdx],
                 joints, Tail(elements))

createSkeleton(joints) ==
    CreateSkeletonLoop([_bones |-> <<>>, _parents |-> <<>>], joints, ElementIndexes(joints))

\* load_skeleton: the computation of skeletonUpdate.
\* A plausible slip: the Animated_mesh_ctrl is left as it is.
load_skeleton_keeping_animMesh(m) ==
    LET Loaded(newSkeleton, bones) ==
            Ret("kSuccess",
                [Earlier(m) EXCEPT !.node.bones = bones,
                                   !.node.bonesOf = 1,
                                   !.node.skel = [loaded  |-> TRUE,
                                                  parents |-> newSkeleton._parents,
                                                  data    |-> BoneTransforms(bones, Len(bones)),
                                                  id      |-> 1,
                                                  bonesOf |-> 1],
                                   !.calls = @ \o <<"load_skeleton", "createSkeleton",
                                                    "boneSet.load", "new Skeleton">>])
        Created(newSkeleton) == Loaded(newSkeleton, NewBones(Len(newSkeleton._bones)))
    IN  Created(createSkeleton(m.attrs.joints))

load_skeleton(m) ==
    LET Loaded(newSkeleton, bones) ==
            LET set  == [Earlier(m) EXCEPT !.node.bones = bones, !.node.bonesOf = 1]
                skel == [loaded  |-> TRUE,
                         parents |-> newSkeleton._parents,
                         data    |-> BoneTransforms(bones, Len(bones)),
                         id      |-> 1,
                         bonesOf |-> set.node.bonesOf]
                made == [set EXCEPT !.node.skel = skel,
                                    !.calls = @ \o <<"load_skeleton", "createSkeleton",
                                                     "boneSet.load", "new Skeleton">>]
            IN  IF m.node.mesh.loaded
                THEN Ret("kSuccess",
                         Call([made EXCEPT !.node.animMesh = NewAnimMesh(m.node.mesh, skel)],
                              "new Animated_mesh_ctrl"))
                ELSE Ret("kSuccess", made)
        Created(newSkeleton) == Loaded(newSkeleton, NewBones(Len(newSkeleton._bones)))
    IN  Created(createSkeleton(m.attrs.joints))

\* dataBlock.inputValue(plug): r is what the computation of plug gave, run only
\* when plug was dirty; a computation that succeeded leaves plug clean.
Computed(plug, r) ==
    IF r.st = "kSuccess" THEN Ret("kSuccess", [r.m EXCEPT !.dirty = @ \ {plug}]) ELSE r

PullSkeletonUpdate(m) ==
    IF "skeletonUpdate" \in m.dirty
    THEN Computed("skeletonUpdate", load_skeleton(m))
    ELSE Ret("kSuccess", m)

\* An array attribute after the elements 0 .. Len(new) - 1 were set by logical
\* index: the elements past them stay.
SetElements(old, new) == new \o SubSeq(old, Len(new) + 1, Len(old))

\* A plausible slip: the number of elements of baseGradient is not compared.
load_base_potential_by_potential_count(m) ==
    IF ~m.node.animMesh.live THEN Ret("kSuccess", Call(m, "load_base_potential"))
    ELSE LET nverts == m.node.mesh.nverts
             pot    == IF nverts # Len(m.attrs.basePotential)
                       THEN [size |-> nverts, loaded |-> FALSE,
                             values |-> [v \in 1..nverts |-> "zero"],
                             gradient |-> [v \in 1..nverts |-> "zero"]]
                       ELSE [size |-> Len(m.attrs.basePotential), loaded |-> TRUE,
                             values |-> m.attrs.basePotential,
                             gradient |-> m.attrs.baseGradient]
         IN  Ret("kSuccess",
                 Call(Call([m EXCEPT !.node.animMesh.basePotential = pot],
                           "load_base_potential"), "set_base_potential"))

\* load_base_potential: basePotential and baseGradient are read when both have
\* one element for each vertex of the mesh; otherwise the base potential is
\* cleared.
load_base_potential(m) ==
    IF ~m.node.animMesh.live THEN Ret("kSuccess", Call(m, "load_base_potential"))
    ELSE LET nverts == m.node.mesh.nverts
             pot    == IF \/ nverts # Len(m.attrs.basePotential)
                          \/ Len(m.attrs.baseGradient) # Len(m.attrs.basePotential)
                       THEN [size |-> nverts, loaded |-> FALSE,
                             values |-> [v \in 1..nverts |-> "zero"],
                             gradient |-> [v \in 1..nverts |-> "zero"]]
                       ELSE [size |-> Len(m.attrs.basePotential), loaded |-> TRUE,
                             values |-> m.attrs.basePotential,
                             gradient |-> m.attrs.baseGradient]
         IN  Ret("kSuccess",
                 Call(Call([m EXCEPT !.node.animMesh.basePotential = pot],
                           "load_base_potential"), "set_base_potential"))

\* A plausible slip: a loaded mesh is kept whatever the input mesh is.
load_mesh_once(m) ==
    LET Loaded(pulled) ==
            LET p    == pulled.m
                geom == p.attrs.geom
                mesh == [loaded |-> TRUE, nverts |-> geom.nverts]
            IN  IF pulled.st # "kSuccess" THEN pulled
                ELSE IF ~p.node.skel.loaded THEN Ret("kSuccess", p)
                ELSE IF ~geom.isMesh THEN Ret("kFailure", p)
                ELSE IF p.node.mesh.loaded THEN Ret("kSuccess", p)
                ELSE load_base_potential(
                         [p EXCEPT !.node.mesh = mesh,
                                   !.node.animMesh = NewAnimMesh(mesh, p.node.skel),
                                   !.calls = @ \o <<"new Mesh", "new Animated_mesh_ctrl">>])
    IN  Loaded(PullSkeletonUpdate(Call(m, "load_mesh")))

\* A plausible slip: the Animated_mesh_ctrl of the mesh before is left in place.
load_mesh_keeping_animMesh(m) ==
    LET Loaded(pulled) ==
            LET p    == pulled.m
                geom == p.attrs.geom
                mesh == [loaded |-> TRUE, nverts |-> geom.nverts]
            IN  IF pulled.st # "kSuccess" THEN pulled
                ELSE IF ~p.node.skel.loaded THEN Ret("kSuccess", p)
                ELSE IF ~geom.isMesh THEN Ret("kFailure", p)
                ELSE IF p.node.mesh.loaded /\ p.node.mesh.nverts = geom.nverts
                     THEN Ret("kSuccess", p)
                ELSE load_base_potential(
                         [p EXCEPT !.node.mesh = mesh,
                                   !.node.animMesh =
                                       IF @.live THEN @ ELSE NewAnimMesh(mesh, p.node.skel),
                                   !.calls = @ \o <<"new Mesh", "new Animated_mesh_ctrl">>])
    IN  Loaded(PullSkeletonUpdate(Call(m, "load_mesh")))

\* load_mesh: the computation of meshUpdate.
load_mesh(m) ==
    LET Loaded(pulled) ==
            LET p    == pulled.m
                geom == p.attrs.geom
                mesh == [loaded |-> TRUE, nverts |-> geom.nverts]
            IN  IF pulled.st # "kSuccess" THEN pulled
                ELSE IF ~p.node.skel.loaded THEN Ret("kSuccess", p)
                ELSE IF ~geom.isMesh THEN Ret("kFailure", p)
                ELSE IF p.node.mesh.loaded /\ p.node.mesh.nverts = geom.nverts
                     THEN Ret("kSuccess", p)
                ELSE load_base_potential(
                         [p EXCEPT !.node.mesh = mesh,
                                   !.node.animMesh = NewAnimMesh(mesh, p.node.skel),
                                   !.calls = @ \o <<"new Mesh", "new Animated_mesh_ctrl">>])
    IN  Loaded(PullSkeletonUpdate(Call(m, "load_mesh")))

PullMeshUpdate(m) ==
    IF "meshUpdate" \in m.dirty
    THEN Computed("meshUpdate", load_mesh(m))
    ELSE Ret("kSuccess", m)

\* Bone::set_hrbf_radius: the radius is stored, and a field that was fitted is
\* fitted again with it.
set_hrbf_radius(bone, hrbfRadius) ==
    [bone EXCEPT !.hrbfRadius = hrbfRadius,
                 !.fit = IF bone.hrbf THEN <<bone.fit[1], hrbfRadius>> ELSE @]

\* load_sampleset: the loop over the elements of joints[].  Element i (physical)
\* goes to the bone of index i.  acc is the status so far, the bones and the
\* SampleSet: bone id -> number of samples.
RECURSIVE LoadSamplesetLoop(_, _, _, _)
LoadSamplesetLoop(acc, joints, elements, i) ==
    IF i >= Len(elements) \/ acc.st # "kSuccess" THEN acc
    ELSE LET joint == joints[elements[i + 1]]
             bones == [acc.bones EXCEPT ![i + 1] = set_hrbf_radius(@, joint.hrbfRadius)]
         IN  IF joint.points # joint.normals
             THEN [acc EXCEPT !.st = "kFailure", !.bones = bones]
             ELSE LoadSamplesetLoop(
                      [acc EXCEPT !.bones = bones, !.samples = Append(@, joint.points)],
                      joints, elements, i + 1)

\* The HRBF fit of a bone to its samples: with fewer than four the fit fails,
\* and the bone keeps the field it had, if any.
HrbfFit(bone) ==
    IF bone.samples >= MinFitSamples
    THEN [bone EXCEPT !.hrbf = TRUE, !.fit = <<bone.samples, bone.hrbfRadius>>]
    ELSE bone

\* BoneSet::load_sampleset: every bone that has an entry in the SampleSet takes
\* its samples and is fitted to them.
RECURSIVE BoneSetLoadSampleset(_, _, _)
BoneSetLoadSampleset(bones, samples, i) ==
    IF i >= Len(samples) THEN bones
    ELSE BoneSetLoadSampleset(
             [bones EXCEPT ![i + 1] = HrbfFit([@ EXCEPT !.samples = samples[i + 1]])],
             samples, i + 1)

\* load_sampleset: the computation of sampleSetUpdate.
load_sampleset(m) ==
    LET Installed(p, bones) ==
            Ret("kSuccess",
                [p EXCEPT !.node.bones = bones,
                          !.node.skel.data = BoneTransforms(bones, Len(bones)),
                          !.calls = @ \o <<"boneSet.load_sampleset", "precompute_all_bones",
                                           "update_bones_data">>])
        Read(p, loop) ==
            IF loop.st # "kSuccess" THEN Ret(loop.st, [p EXCEPT !.node.bones = loop.bones])
            ELSE Installed(p, BoneSetLoadSampleset(loop.bones, loop.samples, 0))
        Loaded(pulled) ==
            LET p == pulled.m
            IN  IF pulled.st # "kSuccess" THEN pulled
                ELSE IF ~p.node.skel.loaded THEN Ret("kSuccess", p)
                ELSE Read(p, LoadSamplesetLoop(
                                 [st |-> "kSuccess", bones |-> p.node.bones, samples |-> <<>>],
                                 p.attrs.joints, ElementIndexes(p.attrs.joints), 0))
    IN  Loaded(PullSkeletonUpdate(Call(m, "load_sampleset")))

PullSampleSetUpdate(m) ==
    IF "sampleSetUpdate" \in m.dirty
    THEN Computed("sampleSetUpdate", load_sampleset(m))
    ELSE Ret("kSuccess", m)

\* boneSet.get_bone_by_idx(idx)->get_bone_id(): bone idx has id idx; past the
\* end of bones the read gives m.stray.
get_bone_by_idx(m, idx) == IF idx < Len(m.node.bones) THEN idx ELSE m.stray

\* deform: the loop that fills bone_transforms from the elements of joints[].
\* asked are the indices given to get_bone_by_idx.
RECURSIVE BoneTransformsLoop(_, _, _, _)
BoneTransformsLoop(loop, m, elements, i) ==
    IF i >= Len(elements) \/ i >= Len(m.node.bones) THEN loop
    ELSE LET logicalIndex == elements[i + 1]
             bone_id      == get_bone_by_idx(m, logicalIndex)
             asked        == Append(loop.asked, logicalIndex)
         IN  IF bone_id = Crash
             THEN [loop EXCEPT !.st = "crash", !.asked = asked]
             ELSE BoneTransformsLoop(
                      [loop EXCEPT
                          !.asked = asked,
                          !.bone_transforms =
                              [id \in DOMAIN @ \cup {bone_id} |->
                                  IF id = bone_id
                                  THEN JointTransform(logicalIndex, m.attrs.frame)
                                  ELSE @[id]]],
                      m, elements, i + 1)

\* boneSet.set_transforms
set_transforms(m, bone_transforms) ==
    Call([m EXCEPT !.node.bones =
              [b \in DOMAIN m.node.bones |->
                  IF (b - 1) \in DOMAIN bone_transforms
                  THEN [m.node.bones[b] EXCEPT !.tr = bone_transforms[b - 1]]
                  ELSE m.node.bones[b]]],
         "set_transforms")

\* skeleton.skel->update_bones_data()
update_bones_data(m) ==
    Call([m EXCEPT !.node.skel.data = BoneTransforms(m.node.bones, Len(m.node.bones))],
         "update_bones_data")

\* setGeometry
setGeometry(m) ==
    IF m.attrs.geom.nverts # m.node.animMesh.nverts
    THEN Ret("kSuccess", Call(m, "setGeometry"))
    ELSE Ret("kSuccess", Call(Call(m, "setGeometry"), "copy_vertices"))

\* animMesh->deform_mesh(): the field is evaluated with the transforms the
\* skeleton holds.
deform_mesh(m) == Call([m EXCEPT !.evaluated = m.node.skel.data], "deform_mesh")

\* A plausible slip: the mesh is deformed first and the pose is updated after.
DeformBeforePose(m, bone_transforms) ==
    Ret("kSuccess", update_bones_data(set_transforms(deform_mesh(setGeometry(m).m),
                                                     bone_transforms)))

\* deform, from "Update the skeleton transforms" to deform_mesh.
PoseAndDeform(m, bone_transforms) ==
    LET Deformed(geom) ==
            IF geom.st # "kSuccess" THEN geom ELSE Ret("kSuccess", deform_mesh(geom.m))
    IN  Deformed(setGeometry(update_bones_data(set_transforms(m, bone_transforms))))

\* deform
deform(m) ==
    LET Written(done) ==
            IF done.st # "kSuccess" THEN done
            ELSE Ret("kSuccess", Call([done.m EXCEPT !.written = TRUE], "setPosition"))
        Looped(p, loop) ==
            LET q == [p EXCEPT !.asked = loop.asked, !.bone_transforms = loop.bone_transforms]
            IN  IF loop.st # "kSuccess" THEN Ret(loop.st, q)
                ELSE Written(PoseAndDeform(q, loop.bone_transforms))
        Posed(mesh) ==
            LET p == mesh.m
            IN  IF mesh.st # "kSuccess" THEN mesh
                ELSE IF ~p.node.mesh.loaded \/ ~p.node.skel.loaded THEN Ret("kSuccess", p)
                ELSE Looped(p, BoneTransformsLoop(
                                   [st |-> "kSuccess", asked |-> <<>>, bone_transforms |-> <<>>],
                                   p, ElementIndexes(p.attrs.joints), 0))
        Meshed(skel) ==
            IF skel.st # "kSuccess" THEN skel ELSE Posed(PullMeshUpdate(skel.m))
    IN  Meshed(PullSkeletonUpdate(Call(m, "deform")))

\* save_sampleset: the samples of bone i go to joints[i]; samples is the
\* SampleSet, bone id -> number of samples, and a bone without entry has none.
\* Elements are set, none is removed.
RECURSIVE SaveSamplesetLoop(_, _, _, _)
SaveSamplesetLoop(joints, nbones, samples, i) ==
    IF i >= nbones THEN joints
    ELSE LET n == IF i \in DOMAIN samples THEN samples[i] ELSE 0
             old == IF i \in DOMAIN joints THEN joints[i] ELSE DefaultJoint
             new == [old EXCEPT !.points  = Max({old.points, n}),
                                !.normals = Max({old.normals, n})]
         IN  IF n = 0 THEN SaveSamplesetLoop(joints, nbones, samples, i + 1)
             ELSE SaveSamplesetLoop(
                      [l \in DOMAIN joints \cup {i} |-> IF l = i THEN new ELSE joints[l]],
                      nbones, samples, i + 1)

save_sampleset(m, samples) ==
    LET Saved(joints) ==
            Ret("kSuccess",
                Call([m EXCEPT !.attrs.joints = joints,
                               !.dirty = IF joints = m.attrs.joints THEN @
                                         ELSE @ \cup Affected("point") \cup Affected("normal")],
                     "save_sampleset"))
    IN  Saved(SaveSamplesetLoop(m.attrs.joints, Len(m.node.bones), samples, 0))

\* The rest-pose field: the fit of every bone.
RestField(bones) == [b \in DOMAIN bones |-> bones[b].fit]

\* Animated_mesh_ctrl::update_base_potential: the potential of every vertex of
\* the mesh under the rest-pose field.
update_base_potential(m) ==
    LET values   == [v \in 1..m.node.animMesh.nverts |-> <<v, RestField(m.node.bones)>>]
        gradient == [v \in 1..m.node.animMesh.nverts |->
                        <<v, RestField(m.node.bones), "gradient">>]
    IN  Call([m EXCEPT !.node.animMesh.basePotential =
                           [size |-> Len(values), loaded |-> TRUE, values |-> values,
                            gradient |-> gradient]],
             "update_base_potential")

\* A plausible slip: the values are appended to the arrays instead of set by
\* index.
StoreBasePotentialAppending(m) ==
    LET pot  == m.node.animMesh.basePotential.values
        grad == m.node.animMesh.basePotential.gradient
    IN  [m EXCEPT !.attrs.basePotential = @ \o pot,
                  !.attrs.baseGradient = @ \o grad,
                  !.dirty = @ \cup Affected("basePotential") \cup Affected("baseGradient")]

\* calculate_base_potential, from "Read the result": the base potential is
\* stored in basePotential and baseGradient.
StoreBasePotential(m) ==
    LET pot  == m.node.animMesh.basePotential.values
        grad == m.node.animMesh.basePotential.gradient
    IN  [m EXCEPT !.attrs.basePotential = SetElements(@, pot),
                  !.attrs.baseGradient = SetElements(@, grad),
                  !.dirty = @ \cup Affected("basePotential") \cup Affected("baseGradient")]

\* calculate_base_potential
calculate_base_potential(m) ==
    LET Updated(skel) ==
            IF skel.st # "kSuccess" THEN skel
            ELSE IF ~skel.m.node.animMesh.live THEN Ret("kSuccess", skel.m)
            ELSE Ret("kSuccess", StoreBasePotential(update_base_potential(skel.m)))
        Meshed(mesh) ==
            IF mesh.st # "kSuccess" THEN mesh ELSE Updated(PullSkeletonUpdate(mesh.m))
        Sampled(samp) ==
            IF samp.st # "kSuccess" THEN samp ELSE Meshed(PullMeshUpdate(samp.m))
    IN  Sampled(PullSampleSetUpdate(Call(m, "calculate_base_potential")))

\* Skeleton::get_bone_ids: the ids of all the bones of the skeleton.
RECURSIVE SampleLoop(_, _, _, _)
SampleLoop(m, bone_ids, choice, k) ==
    IF k > Len(bone_ids) THEN m
    ELSE LET bone_id == bone_ids[k]
         IN  SampleLoop(
                 Call([m EXCEPT !.sampled = Append(@, bone_id),
                                !.chosen = [id \in DOMAIN @ \cup {bone_id} |->
                                               IF id = bone_id THEN choice[bone_id] ELSE @[id]]],
                      "choose_hrbf_samples"),
                 bone_ids, choice, k + 1)

\* sample_all_joints; choose_hrbf_samples gives choice[id] samples to bone id.
sample_all_joints(m, choice) ==
    LET Saved(saved) ==
            IF saved.st # "kSuccess" THEN saved ELSE calculate_base_potential(saved.m)
        Chosen(p) == Saved(save_sampleset(p, p.chosen))
        Sampled(mesh) ==
            LET p == mesh.m
            IN  IF mesh.st # "kSuccess" THEN mesh
                ELSE IF ~p.node.animMesh.live THEN Ret("kSuccess", p)
                ELSE Chosen(SampleLoop(p, get_bone_ids(p.node.bones), choice, 1))
        Meshed(skel) == Sampled(PullMeshUpdate(skel.m))
    IN  Meshed(PullSkeletonUpdate(Call(m, "sample_all_joints")))

\* What the last operation on the node was and gave.
Given(op, r) ==
    [op |-> op, status |-> r.st, calls |-> r.m.calls, evaluated |-> r.m.evaluated,
     written |-> r.m.written, sampled |-> r.m.sampled, chosen |-> r.m.chosen,
     again |-> FALSE, asked |-> r.m.asked, bone_transforms |-> r.m.bone_transforms]

Edited == [op |-> "setAttr", status |-> "kSuccess", calls |-> <<>>, evaluated |-> <<>>,
           written |-> FALSE, sampled |-> <<>>, chosen |-> <<>>, again |-> FALSE,
           asked |-> <<>>, bone_transforms |-> <<>>]

Entry == [attrs |-> attrs, dirty |-> dirty, node |-> deformer, calls |-> <<>>,
          evaluated |-> <<>>, written |-> FALSE, sampled |-> <<>>, chosen |-> <<>>,
          asked |-> <<>>, bone_transforms |-> <<>>, stray |-> Crash]

\* The outcome r of an operation becomes the state of the node.
Becomes(op, r) ==
    /\ attrs' = r.m.attrs
    /\ dirty' = r.m.dirty
    /\ deformer' = r.m.node
    /\ last' = Given(op, r)
    /\ UNCHANGED <<edits, loadVars, coreVars>>

\* setAttr joints[l].parentIdx p (ImplicitCommand::init of plugin.cpp stores the
\* hierarchy of the skin cluster this way).
SetParentIdx ==
    /\ edits < MaxEdits
    /\ \E l \in JointIdx, p \in -1..MaxJointIdx :
          /\ IF l \in DOMAIN attrs.joints THEN attrs.joints[l].parentIdx # p ELSE TRUE
          /\ attrs' = [attrs EXCEPT !.joints =
                 [x \in DOMAIN attrs.joints \cup {l} |->
                     IF x = l
                     THEN [(IF l \in DOMAIN attrs.joints THEN attrs.joints[l] ELSE DefaultJoint)
                              EXCEPT !.parentIdx = p]
                     ELSE attrs.joints[x]]]
    /\ dirty' = dirty \cup Affected("parentIdx")
    /\ last' = Edited
    /\ edits' = edits + 1
    /\ UNCHANGED <<deformer, loadVars, coreVars>>

\* setAttr of the sample points and normals of an element of joints[].
SetSamples ==
    /\ edits < MaxEdits
    /\ \E l \in DOMAIN attrs.joints, np \in SampleCounts, nn \in SampleCounts :
          /\ <<attrs.joints[l].points, attrs.joints[l].normals>> # <<np, nn>>
          /\ attrs' = [attrs EXCEPT !.joints[l].points = np, !.joints[l].normals = nn]
    /\ dirty' = dirty \cup Affected("point") \cup Affected("normal")
    /\ last' = Edited
    /\ edits' = edits + 1
    /\ UNCHANGED <<deformer, loadVars, coreVars>>

\* setAttr joints[l].hrbfRadius r
SetHrbfRadius ==
    /\ edits < MaxEdits
    /\ \E l \in DOMAIN attrs.joints, r \in Radii :
          /\ attrs.joints[l].hrbfRadius # r
          /\ attrs' = [attrs EXCEPT !.joints[l].hrbfRadius = r]
    /\ dirty' = dirty \cup Affected("hrbfRadius")
    /\ last' = Edited
    /\ edits' = edits + 1
    /\ UNCHANGED <<deformer, loadVars, coreVars>>

\* The geometry that comes in at input[0].inputGeometry changes.
SetInputGeometry ==
    /\ edits < MaxEdits
    /\ \E g \in Geometries :
          /\ g # attrs.geom
          /\ attrs' = [attrs EXCEPT !.geom = g]
    /\ dirty' = dirty \cup Affected("inputGeom")
    /\ last' = Edited
    /\ edits' = edits + 1
    /\ UNCHANGED <<deformer, loadVars, coreVars>>

\* The animation goes to another frame: the matrix of every joint changes.
SetFrame ==
    /\ edits < MaxEdits
    /\ \E f \in Frames :
          /\ f # attrs.frame
          /\ attrs' = [attrs EXCEPT !.frame = f]
    /\ dirty' = dirty \cup Affected("matrix")
    /\ last' = Edited
    /\ edits' = edits + 1
    /\ UNCHANGED <<deformer, loadVars, coreVars>>

\* A joint is connected to a free element of joints[]: the element is created
\* with its matrix, and nothing else of it is set.
ConnectMatrix ==
    /\ edits < MaxEdits
    /\ \E l \in EntryIdx \ DOMAIN attrs.joints :
          /\ attrs' = [attrs EXCEPT !.joints =
                 [x \in DOMAIN attrs.joints \cup {l} |->
                     IF x = l THEN DefaultJoint ELSE attrs.joints[x]]]
    /\ dirty' = dirty \cup Affected("matrix")
    /\ last' = Edited
    /\ edits' = edits + 1
    /\ UNCHANGED <<deformer, loadVars, coreVars>>

\* compute(skeletonUpdate), asked for from outside the node.
GetSkeletonUpdate ==
    /\ "skeletonUpdate" \in dirty
    /\ \E r \in {PullSkeletonUpdate(Entry)} : Becomes("skeletonUpdate", r)

\* compute(meshUpdate)
GetMeshUpdate ==
    /\ "meshUpdate" \in dirty
    /\ \E r \in {PullMeshUpdate(Entry)} : Becomes("meshUpdate", r)

\* compute(sampleSetUpdate), as load_visualization_geom_data asks for it.
GetSampleSetUpdate ==
    /\ "sampleSetUpdate" \in dirty
    /\ \E r \in {PullSampleSetUpdate(Entry)} : Becomes("sampleSetUpdate", r)

\* compute(outputGeom): MPxDeformerNode::compute calls deform.
\* A bone past the end of bones is read only when the skeleton is not loaded
\* again and an element of joints[] has an index past the bones.
Deform ==
    /\ "outputGeom" \in dirty
    /\ \E stray \in IF /\ "skeletonUpdate" \notin dirty
                       /\ \E l \in DOMAIN attrs.joints : l >= Len(deformer.bones)
                    THEN Strays ELSE {Crash} :
       \E r \in {Computed("outputGeom", deform([Entry EXCEPT !.stray = stray]))} :
          Becomes("deform", r)

\* implicitSkin -sampleAll: ImplicitCommand::sampleAll.
\* The sampling is run for the bones there are: at most one more than the
\* greatest index of an element or of a bone.
SampleAll ==
    /\ edits < MaxEdits
    /\ \E choice \in {c \in SampleChoices :
                        \A id \in EntryIdx :
                           (/\ \A l \in DOMAIN attrs.joints : l < id
                            /\ id >= Len(deformer.bones)) => c[id] = 0} :
       \E r \in {sample_all_joints(Entry, choice)} :
          /\ attrs' = r.m.attrs
          /\ dirty' = r.m.dirty
          /\ deformer' = r.m.node
          /\ last' = Given("sampleAll", r)
    /\ edits' = edits + 1
    /\ UNCHANGED <<loadVars, coreVars>>

\* implicitSurface -updateBase: ImplicitCommand::calculate_base_potential.
\* again tells a run that follows another run with nothing in between.
CalculateBasePotential ==
    /\ edits < MaxEdits
    /\ \E r \in {calculate_base_potential(Entry)} :
          /\ attrs' = r.m.attrs
          /\ dirty' = r.m.dirty
          /\ deformer' = r.m.node
          /\ last' = [Given("calculate_base_potential", r) EXCEPT
                         !.again = (last.op = "calculate_base_potential")]
    /\ edits' = edits + 1
    /\ UNCHANGED <<loadVars, coreVars>>

NewAttrs == [joints |-> <<>>, frame |-> 0, geom |-> NotAMesh,
             basePotential |-> <<>>, baseGradient |-> <<>>]

\* The node variables while the loaders run, and the loader variables while the
\* node runs.
NodeIdle ==
    /\ attrs = NewAttrs
    /\ dirty = Plugs
    /\ deformer = NewNode
    /\ last = Edited
    /\ edits = 0

LoadIdle ==
    /\ fbxTree = <<>>
    /\ fbxSkel = EmptyAbsSkel
    /\ influences = <<>>
    /\ cmd = CmdIdle

\* The correction loop and the sample selection while they are not looked at.
NoCorrection == [field |-> <<>>, target |-> 0, pos |-> 0, closest |-> 0,
                 seen |-> {}, iterations |-> 0, done |-> TRUE]

NoSelection == [vertices |-> <<>>, junction_radius |-> 0, samples |-> <<>>, k |-> 1]

\* The plug-in after initialize() returned kSuccess, with a node made.
Registered ==
    [pc |-> Len(InitializeBody) + 1, created |-> Inherited \cup CreatedBefore(Len(InitializeBody) + 1),
     declared |-> DepEdges, status |-> "kSuccess", node |-> TRUE]

\* The FBX mesh while it is not looked at.
NoFbxMesh == [polygons |-> 0, elements |-> <<>>, f_size |-> 0, m_size |-> 0,
              _groups |-> <<>>, pc |-> "off"]

CoreIdle ==
    /\ correction = NoCorrection
    /\ selection = NoSelection
    /\ plugin = Registered
    /\ fbxMesh = NoFbxMesh

InitLoad ==
    /\ NodeIdle
    /\ CoreIdle
    /\ \/ /\ fbxTree \in UNION {FbxTrees(n) : n \in 1..MaxNodes}
          /\ fbxSkel = EmptyAbsSkel
          /\ influences = <<>>
          /\ cmd = CmdIdle
       \/ /\ fbxTree = <<>>
          /\ fbxSkel = EmptyAbsSkel
          /\ influences \in InfluenceSets
          /\ cmd = [CmdIdle EXCEPT !.pc = "ready"]

NextLoad == FbxGetSkeleton \/ ImplicitCommandInit

SpecLoad == InitLoad /\ [][NextLoad]_vars

\* A node right after its creation on some geometry at some frame: nothing is
\* computed yet.
InitNode ==
    /\ LoadIdle
    /\ CoreIdle
    /\ \E g \in Geometries, f \in Frames : attrs = [NewAttrs EXCEPT !.geom = g, !.frame = f]
    /\ dirty = Plugs
    /\ deformer = NewNode
    /\ last = Edited
    /\ edits = 0

NextNode ==
    \/ SetParentIdx \/ SetSamples \/ SetHrbfRadius \/ SetInputGeometry \/ SetFrame
    \/ GetSkeletonUpdate \/ GetMeshUpdate \/ GetSampleSetUpdate \/ Deform \/ SampleAll
    \/ CalculateBasePotential \/ ConnectMatrix

SpecNode == InitNode /\ [][NextNode]_vars

\* The joints[] that implicitSkin -init stores for a skin cluster whose
\* influences 0 .. n are a chain, with the default radius it gives every bone.
StoredJoints(n, hrbfRadius) ==
    [l \in 0..n |-> [DefaultJoint EXCEPT !.parentIdx = l - 1, !.hrbfRadius = hrbfRadius]]

\* A node that was set up with -init on a mesh and a chain of joints and
\* sampled with -sampleAll, which found samples for every bone.
InitScene ==
    /\ LoadIdle
    /\ CoreIdle
    /\ \E g \in {[isMesh |-> TRUE, nverts |-> MaxVerts]}, n \in {MaxJointIdx},
          hrbfRadius \in Radii \ {0}, choice \in {[l \in EntryIdx |-> MinFitSamples]} :
       \E r \in {sample_all_joints(
                     [attrs |-> [NewAttrs EXCEPT !.geom = g,
                                                 !.joints = StoredJoints(n, hrbfRadius)],
                      dirty |-> Plugs, node |-> NewNode, calls |-> <<>>, evaluated |-> <<>>,
                      written |-> FALSE, sampled |-> <<>>, chosen |-> <<>>,
                      asked |-> <<>>, bone_transforms |-> <<>>, stray |-> Crash],
                     choice)} :
          /\ attrs = r.m.attrs
          /\ dirty = r.m.dirty
          /\ deformer = r.m.node
          /\ last = Given("sampleAll", r)
    /\ edits = 0

SpecScene == InitScene /\ [][NextNode]_vars

\* One statement of initialize().  What dep.apply() gives for a dependency that
\* was declared on an attribute not created yet is not known: it succeeds or
\* fails.
InitializeStep ==
    /\ plugin.pc \in DOMAIN InitializeBody
    /\ plugin.status = "running"
    /\ LET stmt == InitializeBody[plugin.pc]
       IN  \/ /\ stmt[1] = "create"
              /\ plugin' = [plugin EXCEPT !.pc = @ + 1, !.created = @ \cup {stmt[2]}]
           \/ /\ stmt[1] = "add"
              /\ plugin' = [plugin EXCEPT !.pc = @ + 1,
                                          !.declared = @ \cup {<<stmt[2], stmt[3]>>}]
           \/ /\ stmt[1] = "apply"
              /\ \E status \in IF EarlyDeclarations = {} THEN {"kSuccess"}
                                ELSE {"kSuccess", "kFailure"} :
                    plugin' = [plugin EXCEPT !.pc = @ + 1, !.status = status]
    /\ UNCHANGED <<loadVars, nodeVars, correction, selection, fbxMesh>>

\* A node is created on some geometry at some frame, once the plug-in is
\* registered.
CreateNode ==
    /\ plugin.status = "kSuccess"
    /\ ~plugin.node
    /\ plugin' = [plugin EXCEPT !.node = TRUE]
    /\ \E g \in Geometries, f \in Frames : attrs' = [NewAttrs EXCEPT !.geom = g, !.frame = f]
    /\ UNCHANGED <<dirty, deformer, last, edits, loadVars, correction, selection, fbxMesh>>

\* The life of the created node.
NodeStep == plugin.node /\ NextNode

\* The plug-in is being loaded: initialize() is about to run.
InitPlugin ==
    /\ LoadIdle
    /\ NodeIdle
    /\ correction = NoCorrection
    /\ selection = NoSelection
    /\ plugin = [pc |-> 1, created |-> Inherited, declared |-> {}, status |-> "running",
                 node |-> FALSE]
    /\ fbxMesh = NoFbxMesh

NextPlugin == InitializeStep \/ CreateNode \/ NodeStep

SpecPlugin == InitPlugin /\ [][NextPlugin]_vars

\* The values an element of basePotential or baseGradient is stored with, and
\* the arrays a scene file can hold: any number of elements around the number
\* of vertices of the mesh.
StoredValues == {"zero", "one"}

StoredArrays == UNION {[1..n -> StoredValues] : n \in 0..MaxVerts + 1}

\* A node as a scene file gives it: joints[], basePotential and baseGradient
\* are stored, nothing is computed yet.
InitStored ==
    /\ LoadIdle
    /\ CoreIdle
    /\ \E n \in 1..MaxVerts, pot \in StoredArrays, grad \in StoredArrays :
          attrs = [NewAttrs EXCEPT !.geom = [isMesh |-> TRUE, nverts |-> n],
                                   !.joints = StoredJoints(0, 1),
                                   !.basePotential = pot,
                                   !.baseGradient = grad]
    /\ dirty = Plugs
    /\ deformer = NewNode
    /\ last = Edited
    /\ edits = 0

NextStored == SetInputGeometry \/ GetMeshUpdate \/ Deform

SpecStored == InitStored /\ [][NextStored]_vars

----------------------------------------------------------------------------
(* The correction loop of Animated_mesh_ctrl::deform_mesh, for one vertex.  *)
(* The vertex is on a line, at a position 0 .. MaxPos; the field of the     *)
(* frame gives a potential at every position; target is the base potential  *)
(* of the vertex.                                                           *)

Positions == 0..MaxPos

Fields == [Positions -> 0..MaxPotential]

\* The tolerance of the potential error, a configured value.
Tolerance == 0

Abs(x) == IF x < 0 THEN -x ELSE x

\* The potential error of the vertex at position pos.
PotentialError(c, pos) == Abs(c.target - c.field[pos])

\* The direction of the gradient of the field at pos, normalized: -1, 0 or 1.
GradientDirection(c, pos) ==
    LET g == c.field[Min({pos + 1, MaxPos})] - c.field[Max({pos - 1, 0})]
    IN  IF g > 0 THEN 1 ELSE IF g < 0 THEN -1 ELSE 0

\* One step: along the gradient, by target potential - current potential.
Displaced(c) ==
    LET to == c.pos + GradientDirection(c, c.pos) * (c.target - c.field[c.pos])
    IN  Max({0, Min({MaxPos, to})})

\* The closest position reached, after the vertex has come to pos.
Closest(c, pos) ==
    IF PotentialError(c, pos) < PotentialError(c, c.closest) THEN pos ELSE c.closest

\* A plausible slip: the position of the last step is kept.
KeptLast(c) == c.pos

\* The position the loop leaves the vertex at.
Kept(c) == c.closest

\* The loop goes on: the cap is not reached and the error is above the tolerance.
CorrectionStep ==
    /\ ~correction.done
    /\ correction.iterations < MaxIterations
    /\ PotentialError(correction, correction.pos) > Tolerance
    /\ \E pos \in {Displaced(correction)} :
          correction' = [correction EXCEPT !.pos = pos,
                                           !.closest = Closest(correction, pos),
                                           !.seen = @ \cup {pos},
                                           !.iterations = @ + 1]
    /\ UNCHANGED <<loadVars, nodeVars, selection, plugin, fbxMesh>>

\* The loop ends, at the cap or below the tolerance.
CorrectionEnd ==
    /\ ~correction.done
    /\ \/ correction.iterations >= MaxIterations
       \/ PotentialError(correction, correction.pos) <= Tolerance
    /\ correction' = [correction EXCEPT !.pos = Kept(correction), !.done = TRUE]
    /\ UNCHANGED <<loadVars, nodeVars, selection, plugin, fbxMesh>>

InitCorrect ==
    /\ LoadIdle
    /\ NodeIdle
    /\ selection = NoSelection
    /\ plugin = Registered
    /\ fbxMesh = NoFbxMesh
    /\ \E field \in Fields, target \in 0..MaxPotential, pos \in Positions :
          correction = [field |-> field, target |-> target, pos |-> pos, closest |-> pos,
                        seen |-> {pos}, iterations |-> 0, done |-> FALSE]

NextCorrect == CorrectionStep \/ CorrectionEnd

\* The loop is run to its end: nothing suspends it.
SpecCorrect == InitCorrect /\ [][NextCorrect]_vars /\ WF_vars(NextCorrect)

----------------------------------------------------------------------------
(* Sample selection: SampleSet::choose_hrbf_samples, run for every bone by   *)
(* sample_all_joints.  The bones are a chain on a line; bone b goes from     *)
(* 2 * b to 2 * b + 2, in half bone lengths, and a vertex is at a position   *)
(* 0 .. 2 * (MaxJointIdx + 1).                                               *)

BoneIds == 0..MaxJointIdx

VertexPositions == 0..(2 * (MaxJointIdx + 1))

\* The distance from position pos to the axis of bone b.
AxisDistance(pos, b) ==
    IF pos < 2 * b THEN 2 * b - pos
    ELSE IF pos > 2 * b + 2 THEN pos - (2 * b + 2)
    ELSE 0

\* A plausible slip: every bone that is as near as any other takes the vertex.
IsAmongNearest(pos, b) ==
    \A c \in BoneIds : AxisDistance(pos, b) <= AxisDistance(pos, c)

\* VertToBoneInfo: b is the nearest bone of a vertex at pos, the first of the
\* bones that are as near as any other.
IsNearest(pos, b) ==
    b = Min({c \in BoneIds : \A d \in BoneIds : AxisDistance(pos, c) <= AxisDistance(pos, d)})

\* The bones next to bone b in the chain.
Adjacent(b) == {b - 1, b + 1} \cap BoneIds

\* The vertices choose_hrbf_samples can take for bone_id: those whose nearest
\* bone it is and that are not closer than the junction radius to the axis of
\* a bone next to it.
Candidates(sel, bone_id) ==
    {v \in DOMAIN sel.vertices :
        /\ IsNearest(sel.vertices[v], bone_id)
        /\ \A c \in Adjacent(bone_id) :
              AxisDistance(sel.vertices[v], c) >= sel.junction_radius}

\* The bone ids the loop of sample_all_joints goes through.
SelectionBoneIds == get_bone_ids(NewBones(MaxJointIdx + 1))

\* choose_hrbf_samples for the k-th bone id: some of the candidates, as the
\* subsampling leaves them.
ChooseHrbfSamples ==
    /\ selection.k <= Len(SelectionBoneIds)
    /\ \E bone_id \in {SelectionBoneIds[selection.k]} :
       \E chosen \in SUBSET Candidates(selection, bone_id) :
          selection' = [selection EXCEPT
                           !.samples = [id \in DOMAIN @ \cup {bone_id} |->
                                           IF id = bone_id THEN chosen ELSE @[id]],
                           !.k = @ + 1]
    /\ UNCHANGED <<loadVars, nodeVars, correction, plugin, fbxMesh>>

InitSelect ==
    /\ LoadIdle
    /\ NodeIdle
    /\ correction = NoCorrection
    /\ plugin = Registered
    /\ fbxMesh = NoFbxMesh
    /\ \E vertices \in [1..MaxVerts -> VertexPositions], r \in 0..MaxJunctionRadius :
          selection = [vertices |-> vertices, junction_radius |-> r, samples |-> <<>>, k |-> 1]

NextSelect == ChooseHrbfSamples

SpecSelect == InitSelect /\ [][NextSelect]_vars

----------------------------------------------------------------------------
(* The material groups of fill_mesh, src/parsers/fbx_loader.cpp.  A mesh    *)
(* node has polygons 0 .. polygons - 1 and material elements; an element    *)
(* has a mapping mode and an index array, with one entry when the mode is   *)
(* eALL_SAME and one entry for each polygon when it is eBY_POLYGON.         *)

Materials == 0..MaxMaterialIdx

\* The numbers of material elements of a mesh.
ElementCounts == {0, 1, 2}

\* The numbers of triangles and of materials that Loader::Abs_mesh holds before
\* the mesh node is read.
SizesBefore == {0, 1}

MaterialElements(polygons) ==
    [mode : {"eALL_SAME"}, index : [1..1 -> Materials]]
        \cup [mode : {"eBY_POLYGON"}, index : [1..polygons -> Materials]]

\* GetIndexArray().GetAt(i): what a read past the end of the array gives is
\* not defined; stray[i] is what it happens to be.
GetAt(element, i, stray) ==
    IF i < Len(element.index) THEN element.index[i + 1] ELSE stray[i]

\* The inner loop "for (; i < GetPolygonCount() && m_size + GetAt(i) ==
\* mg._material_idx; ++i);": the value of i when it ends.
RECURSIVE RunEnd(_, _, _, _, _)
RunEnd(fbx, element, stray, material_idx, i) ==
    IF i < fbx.polygons /\ fbx.m_size + GetAt(element, i, stray) = material_idx
    THEN RunEnd(fbx, element, stray, material_idx, i + 1)
    ELSE i

\* A plausible slip: the faces of the group are counted from 0, not from the
\* faces the mesh held before.
MaterialGroupFromZero(fbx, material_idx, i, end) ==
    [_material_idx |-> material_idx, _start_face |-> i, _end_face |-> end]

\* The Loader::MaterialGroup of the polygons i .. end - 1.
MaterialGroup(fbx, material_idx, i, end) ==
    [_material_idx |-> material_idx,
     _start_face   |-> fbx.f_size + i,
     _end_face     |-> fbx.f_size + end]

\* The loop "register all material groups" from polygon i on.
RECURSIVE RegisterMaterialGroups(_, _, _, _, _)
RegisterMaterialGroups(fbx, element, stray, i, _assigned_mats) ==
    IF i >= fbx.polygons THEN _assigned_mats
    ELSE LET material_idx == fbx.m_size + GetAt(element, i, stray)
             end          == RunEnd(fbx, element, stray, material_idx, i)
             mg           == MaterialGroup(fbx, material_idx, i, end)
         IN  RegisterMaterialGroups(fbx, element, stray, end, Append(_assigned_mats, mg))

\* One group for all the new faces, with the material GetAt(0) of the element.
AllSameGroup(fbx, element, stray) ==
    << [_material_idx |-> fbx.m_size + GetAt(element, 0, stray),
        _start_face   |-> fbx.f_size,
        _end_face     |-> fbx.f_size + fbx.polygons] >>

\* The loop that looks for the first element mapped eBY_POLYGON: the value of
\* its own i when it ends.
RECURSIVE SearchByPolygon(_, _)
SearchByPolygon(elements, i) ==
    IF i < Len(elements) /\ elements[i + 1].mode # "eBY_POLYGON"
    THEN SearchByPolygon(elements, i + 1)
    ELSE i

\* fill_mesh, "material groups & groups": the Loader::Group pushed to
\* mesh._groups, if any.  With more than one element the search loop declares
\* an i of its own, and the i that is tested and used after it is the one
\* declared before it, which is 0.
fill_mesh(fbx, stray) ==
    LET nb_elementMaterial == Len(fbx.elements)
        g(_assigned_mats) == [_start_face |-> fbx.f_size,
                              _end_face |-> fbx.f_size + fbx.polygons,
                              _assigned_mats |-> _assigned_mats]
    IN  IF nb_elementMaterial = 1
        THEN IF fbx.elements[1].mode = "eALL_SAME"
             THEN <<g(AllSameGroup(fbx, fbx.elements[1], stray))>>
             ELSE <<g(RegisterMaterialGroups(fbx, fbx.elements[1], stray, 0, <<>>))>>
        ELSE IF nb_elementMaterial > 1
        THEN LET i == 0
             IN  IF i >= nb_elementMaterial
                 THEN <<g(AllSameGroup(fbx, fbx.elements[1], stray))>>
                 ELSE <<g(RegisterMaterialGroups(fbx, fbx.elements[i + 1], stray, 0, <<>>))>>
        ELSE <<>>

\* The element whose index array fill_mesh reads, and whether it reads it for
\* every polygon.
ReadsPastEnd(fbx) ==
    /\ fbx.elements # <<>>
    /\ Len(fbx.elements) > 1 \/ fbx.elements[1].mode # "eALL_SAME"
    /\ Len(fbx.elements[1].index) < fbx.polygons

\* Fbx_file::get_mesh reads the mesh node.
FillMesh ==
    /\ fbxMesh.pc = "ready"
    /\ \E stray \in IF ReadsPastEnd(fbxMesh) THEN [0..fbxMesh.polygons - 1 -> Materials]
                     ELSE {[i \in 0..fbxMesh.polygons - 1 |-> 0]} :
          fbxMesh' = [fbxMesh EXCEPT !._groups = fill_mesh(fbxMesh, stray), !.pc = "done"]
    /\ UNCHANGED <<loadVars, nodeVars, correction, selection, plugin>>

\* An FBX mesh node, and a Loader::Abs_mesh that holds f_size triangles and
\* m_size materials of the nodes read before it.
InitMesh ==
    /\ LoadIdle
    /\ NodeIdle
    /\ correction = NoCorrection
    /\ selection = NoSelection
    /\ plugin = Registered
    /\ \E polygons \in 0..MaxPolygons, f_size \in SizesBefore, m_size \in SizesBefore :
       \E n \in ElementCounts :
       \E elements \in [1..n -> MaterialElements(polygons)] :
          fbxMesh = [polygons |-> polygons, elements |-> elements, f_size |-> f_size,
                     m_size |-> m_size, _groups |-> <<>>, pc |-> "ready"]

NextMesh == FillMesh

SpecMesh == InitMesh /\ [][NextMesh]_vars

----------------------------------------------------------------------------
(* Claims about the loaders *)

CmdDone == cmd.pc = "done"

\* The hierarchy of the influences is a tree: no cycle and one influence without
\* parent.
InfluencesAreOneTree ==
    /\ ~HasCycle(ParentIndexes(influences))
    /\ Cardinality({l \in DOMAIN influences : influences[l].parent = -1}) = 1

\* C2: whenever Abs_skeleton::load finds a cycle, ImplicitCommand::init returns a
\* status other than success and creates neither a blend node nor a surface.
C2_CycleFailsInit ==
    (CmdDone /\ cmd.loadStatus = "kFailure") =>
        (cmd.status # "kSuccess" /\ ~cmd.blend /\ cmd.surfaces = <<>>)

\* C3: the parent array handed to the Skeleton constructor has exactly one entry
\* -1, whatever the logical indexes of the influences of a one-tree hierarchy are.
C3_ExactlyOneRoot ==
    (CmdDone /\ InfluencesAreOneTree) =>
        Cardinality({i \in DOMAIN cmd.skeletonParents : cmd.skeletonParents[i] = -1}) = 1

\* C4: parents are created before children.  In the skeleton filled by
\* fill_skeleton bone 0 is the only bone without parent and every other bone i
\* has 0 <= _parents[i] < i; Abs_skeleton::load installs every list index after
\* the list index of its parent, and installs all of them.
C4_ParentsBeforeChildren ==
    /\ \A i \in 0..(Len(fbxSkel._parents) - 1) :
          IF i = 0 THEN fbxSkel._parents[i + 1] = -1
          ELSE 0 <= fbxSkel._parents[i + 1] /\ fbxSkel._parents[i + 1] < i
    /\ (fbxSkel # EmptyAbsSkel) =>
          /\ Len(fbxSkel._bones) = Len(fbxTree)
          /\ \A i \in 1..(Len(fbxSkel._parents) - 1) :
                fbxSkel._bones[fbxSkel._parents[i + 1] + 1] = fbxTree[fbxSkel._bones[i + 1]]
    /\ (CmdDone /\ cmd.loadStatus = "kSuccess") =>
          /\ Range(cmd.installed) = 0..(Cardinality(DOMAIN influences) - 1)
          /\ \A k \in 1..Len(cmd.installed) :
                LET parent == ParentIndexes(influences)[cmd.installed[k] + 1]
                IN  parent = -1 \/ \E j \in 1..(k - 1) : cmd.installed[j] = parent

\* A load in which an influence comes before its parent in the list, so that the
\* order of installation is not the order of the list.
C4_Witness ==
    /\ CmdDone /\ cmd.loadStatus = "kSuccess"
    /\ Len(cmd.installed) = 3
    /\ \E k \in 1..3 : ParentIndexes(influences)[k] > k - 1
    /\ cmd.installed # Iota(3)

\* The length loadBones computes for the bone of id b: from the position of its
\* parent (the origin without one) to its own.
ComputedLength(b) ==
    LET parent == cmd.bones[b + 1].parent
        org    == IF parent = -1 THEN Origin ELSE cmd.skel._bones[parent + 1]
    IN  Norm(VecSub(cmd.skel._bones[b + 1], org))

\* C5: after loadBones every bone is at least 0.000001 long, and a bone whose
\* computed length was below that has exactly that length and direction (1,0,0).
C5_ShortBonesClamped ==
    CmdDone =>
        \A b \in 0..(Len(cmd.bones) - 1) :
            /\ cmd.bones[b + 1].bone.length >= MinBoneLength
            /\ ComputedLength(b) < MinBoneLength =>
                  /\ cmd.bones[b + 1].bone.length = MinBoneLength
                  /\ cmd.bones[b + 1].bone.dir = DefaultDir

\* A root at the origin, a bone at the position of its parent and a bone of a
\* length between 0 and 0.000001, all in one skeleton.
C5_Witness ==
    /\ CmdDone
    /\ \E b \in 0..(Len(cmd.bones) - 1) :
          cmd.bones[b + 1].parent = -1 /\ cmd.skel._bones[b + 1] = Origin
    /\ \E b \in 0..(Len(cmd.bones) - 1) :
          /\ cmd.bones[b + 1].parent # -1
          /\ cmd.skel._bones[b + 1] = cmd.skel._bones[cmd.bones[b + 1].parent + 1]
          /\ cmd.bones[b + 1].bone.length = MinBoneLength
    /\ \E b \in 0..(Len(cmd.bones) - 1) :
          /\ ComputedLength(b) > 0 /\ ComputedLength(b) < MinBoneLength
          /\ cmd.bones[b + 1].bone.dir = DefaultDir

----------------------------------------------------------------------------
(* Claims about the deformer node *)

Called(l, name) == name \in Range(l.calls)

\* The hierarchy in joints[] has a cycle, or a parent that is no element of
\* joints[].
RECURSIVE ReachesRootJoint(_, _, _)
ReachesRootJoint(joints, l, fuel) ==
    IF l = -1 THEN TRUE
    ELSE IF fuel = 0 \/ l \notin DOMAIN joints THEN FALSE
    ELSE ReachesRootJoint(joints, joints[l].parentIdx, fuel - 1)

BadHierarchy(joints) ==
    \E l \in DOMAIN joints : ~ReachesRootJoint(joints, l, Cardinality(DOMAIN joints))

\* C1: a load of a hierarchy with a cycle or with a parent that is no joint fails
\* as a whole: load_skeleton does not succeed, and the bones, the skeleton and the
\* animated-mesh controller are those of before the call.
C1_BadHierarchyLoadFailsWhole ==
    [][(last'.op = "skeletonUpdate" /\ Called(last', "load_skeleton")
            /\ BadHierarchy(attrs.joints))
       => (last'.status # "kSuccess" /\ deformer' = deformer)]_vars

\* C6: a bone that carries an HRBF has a radius greater than 0, in every state.
C6_HrbfRadiusPositive ==
    \A b \in DOMAIN deformer.bones : deformer.bones[b].hrbf => deformer.bones[b].hrbfRadius > 0

\* C7: when deform has run deform_mesh, the field was evaluated with the
\* transform that the loop of this call assigned to each bone, which is the
\* transform of this frame of the joint of the bone when every joint the
\* loop came to has a bone, and set_transforms and update_bones_data were both
\* done before deform_mesh.
C7_PoseBeforeDeformMesh ==
    (last.op = "deform" /\ Called(last, "deform_mesh")) =>
        /\ Len(last.evaluated) = Len(deformer.bones)
        /\ \A id \in DOMAIN last.bone_transforms :
              id < Len(deformer.bones) => last.evaluated[id + 1] = last.bone_transforms[id]
        /\ (\A k \in Range(last.asked) : k < Len(deformer.bones))
              => \A l \in Range(last.asked) :
                    last.evaluated[l + 1] = JointTransform(l, attrs.frame)
        /\ \E i, j, k \in DOMAIN last.calls :
              /\ i < j /\ j < k
              /\ last.calls[i] = "set_transforms"
              /\ last.calls[j] = "update_bones_data"
              /\ last.calls[k] = "deform_mesh"

\* A deform of a skeleton of two joints at a frame other than the one the bones
\* were created at, that loaded nothing anew.
C7_Witness ==
    /\ last.op = "deform" /\ Called(last, "deform_mesh")
    /\ ~Called(last, "load_skeleton") /\ ~Called(last, "load_mesh")
    /\ Cardinality(DOMAIN attrs.joints) >= 2
    /\ attrs.frame # 0
    /\ last.written

\* C8: sampling all the joints does not run choose_hrbf_samples for bone id 0.
C8_BoneZeroNotSampled ==
    (last.op = "sampleAll" /\ Called(last, "choose_hrbf_samples")) =>
        0 \notin Range(last.sampled)

\* C9: a deform that is entered with an input mesh whose number of points is not
\* that of the loaded animated mesh does not succeed, does not run deform_mesh
\* and writes no output position.
C9_VertexMismatchRejected ==
    [][(last'.op = "deform" /\ deformer.animMesh.live /\ attrs.geom.isMesh
            /\ attrs.geom.nverts # deformer.animMesh.nverts)
       => (last'.status # "kSuccess" /\ ~Called(last', "deform_mesh") /\ ~last'.written)]_vars

\* C10: when load_mesh meets an input mesh whose number of vertices is not that
\* of the loaded mesh, the mesh is replaced, a new animated-mesh controller is
\* made, the base potential is loaded again and so are the sample sets of the
\* bones.
C10_FullReload ==
    [][(Called(last', "load_mesh") /\ deformer.mesh.loaded /\ deformer.bones # <<>>
            /\ ~Called(last', "load_skeleton")
            /\ attrs.geom.isMesh /\ attrs.geom.nverts # deformer.mesh.nverts)
       => /\ deformer'.mesh.nverts = attrs.geom.nverts
          /\ Called(last', "new Animated_mesh_ctrl")
          /\ Called(last', "set_base_potential")
          /\ Called(last', "boneSet.load_sampleset")]_vars

\* C11: a run of calculate_base_potential that follows another run, with no
\* change in between, leaves the base potential of the animated mesh and the
\* values stored in basePotential and baseGradient as the first run left them.
C11_BasePotentialIdempotent ==
    [][(last.op = "calculate_base_potential" /\ last.status = "kSuccess"
            /\ last'.op = "calculate_base_potential")
       => /\ last'.status = "kSuccess"
          /\ deformer'.animMesh.basePotential = deformer.animMesh.basePotential
          /\ attrs'.basePotential = attrs.basePotential
          /\ attrs'.baseGradient = attrs.baseGradient]_vars

\* A second run in a row on a mesh with a joint, that computed the base
\* potential again.
C11_Witness ==
    /\ last.op = "calculate_base_potential" /\ last.again
    /\ Called(last, "update_base_potential")
    /\ deformer.bones # <<>>
    /\ deformer.animMesh.basePotential.loaded
    /\ attrs.basePotential # <<>>

\* C12: a deform that runs deform_mesh runs it with bones that hold the radius
\* and the samples stored in joints[] now: element i of joints[] is the one
\* load_sampleset gives to the bone of index i.
C12_DeformRefitsChangedBones ==
    (last.op = "deform" /\ Called(last, "deform_mesh")) =>
        \A i \in 0..(Len(deformer.bones) - 1) :
            i < Len(ElementIndexes(attrs.joints)) =>
                LET joint == attrs.joints[ElementIndexes(attrs.joints)[i + 1]]
                IN  /\ deformer.bones[i + 1].hrbfRadius = joint.hrbfRadius
                    /\ joint.points = joint.normals =>
                           deformer.bones[i + 1].samples = joint.points

\* The number of points, and of normals, stored for bone id.
StoredSamples(joints, id) ==
    IF id \in DOMAIN joints THEN <<joints[id].points, joints[id].normals>> ELSE <<0, 0>>

\* C13: after sample_all_joints has saved a sample set, the points and the
\* normals stored for every bone are the samples chosen for it now, none of
\* them from an earlier sampling.
C13_ResamplingReplaces ==
    (last.op = "sampleAll" /\ Called(last, "save_sampleset")) =>
        \A id \in DOMAIN last.chosen :
            StoredSamples(attrs.joints, id) = <<last.chosen[id], last.chosen[id]>>

C15_LoadSkeletonReplacesAll ==
    [][(Called(last', "load_skeleton") /\ last'.status = "kSuccess")
       => /\ deformer'.bonesOf = 1
          /\ deformer'.skel.id = 1
          /\ deformer'.skel.bonesOf = 1
          /\ deformer'.animMesh.live => deformer'.animMesh.skelOf = 1]_vars

\* A load of the skeleton, asked for alone, on a node that had a mesh and an
\* Animated_mesh_ctrl built on the skeleton of a load before it.
C15_Witness ==
    /\ last.op = "skeletonUpdate" /\ Called(last, "load_skeleton")
    /\ Called(last, "new Animated_mesh_ctrl")
    /\ deformer.animMesh.live /\ deformer.bones # <<>>

\* C19: when load_sampleset has installed a sample set and the fit of a bone
\* that had a field fails (fewer than four samples), the bone has the field it
\* had before the call.
C19_FailedFitKeepsField ==
    [][(Called(last', "boneSet.load_sampleset") /\ ~Called(last', "load_skeleton"))
       => \A b \in DOMAIN deformer.bones :
              (deformer.bones[b].hrbf /\ deformer'.bones[b].samples < MinFitSamples)
                  => deformer'.bones[b].fit = deformer.bones[b].fit]_vars

C17_CorrectionTerminates ==
    /\ [](/\ correction.iterations <= MaxIterations
          /\ correction.done =>
                \A pos \in correction.seen :
                    PotentialError(correction, correction.pos)
                        <= PotentialError(correction, pos))
    /\ <>correction.done

\* A loop that was stopped by the cap, above the tolerance, after the vertex
\* had been at a position with a greater potential error than where it is left.
C17_Witness ==
    /\ correction.done
    /\ correction.iterations = MaxIterations
    /\ PotentialError(correction, correction.pos) > Tolerance
    /\ \E pos \in correction.seen :
          PotentialError(correction, pos) > PotentialError(correction, correction.pos)

\* C18: when the selection has run for every bone, no vertex is a sample of
\* two bones.
C18_AtMostOneBone ==
    selection.k > Len(SelectionBoneIds) =>
        \A v \in DOMAIN selection.vertices :
            Cardinality({b \in DOMAIN selection.samples : v \in selection.samples[b]}) <= 1

\* A selection that has run for every bone, with no junction radius, in which
\* a vertex at the joint of two bones is a sample and two bones have samples.
C18_Witness ==
    /\ selection.k > Len(SelectionBoneIds)
    /\ selection.junction_radius = 0
    /\ \E v \in DOMAIN selection.vertices :
          /\ Cardinality({b \in BoneIds : AxisDistance(selection.vertices[v], b) = 0}) = 2
          /\ \E b \in DOMAIN selection.samples : v \in selection.samples[b]
    /\ Cardinality({b \in DOMAIN selection.samples : selection.samples[b] # {}}) = 2

\* C21: there is an Animated_mesh_ctrl only when a mesh and a skeleton are
\* loaded, it is built on the skeleton of the last load and on the mesh that
\* is loaded (a mesh is loaded anew only with another number of vertices),
\* and a mesh is loaded only when a skeleton is.
C21_AnimMeshOfWhatIsLoaded ==
    /\ deformer.animMesh.live =>
          /\ deformer.mesh.loaded /\ deformer.skel.loaded
          /\ deformer.animMesh.skelOf = deformer.skel.id
          /\ deformer.skel.id = 1
          /\ deformer.animMesh.nverts = deformer.mesh.nverts
    /\ deformer.mesh.loaded => deformer.skel.loaded

\* A meshUpdate that loaded the skeleton again and then failed on an input
\* that is no mesh, on a node that has an Animated_mesh_ctrl.
C21_Witness ==
    /\ last.op = "meshUpdate" /\ last.status = "kFailure"
    /\ Called(last, "load_skeleton")
    /\ deformer.animMesh.live

\* C22: when load_base_potential has called set_base_potential, the potential
\* and the gradient of the Animated_mesh_ctrl have one entry for each vertex
\* of the mesh; they are all zero when basePotential has not as many elements
\* as the mesh has vertices or as baseGradient has elements, and are the
\* stored elements otherwise.
C22_BasePotentialAsStored ==
    (last.op = "meshUpdate" /\ Called(last, "set_base_potential")) =>
        LET pot    == deformer.animMesh.basePotential
            nverts == deformer.mesh.nverts
        IN  /\ Len(pot.values) = nverts
            /\ Len(pot.gradient) = nverts
            /\ \A i \in 1..nverts :
                  IF \/ Len(attrs.basePotential) # nverts
                     \/ Len(attrs.baseGradient) # Len(attrs.basePotential)
                  THEN pot.values[i] = "zero" /\ pot.gradient[i] = "zero"
                  ELSE /\ pot.values[i] = attrs.basePotential[i]
                       /\ pot.gradient[i] = attrs.baseGradient[i]

\* set_base_potential was called with as many stored potentials as vertices,
\* none of them zero, and another number of stored gradients.
C22_Witness ==
    /\ last.op = "meshUpdate" /\ Called(last, "set_base_potential")
    /\ Len(attrs.basePotential) = deformer.mesh.nverts
    /\ Len(attrs.baseGradient) # Len(attrs.basePotential)
    /\ \A i \in DOMAIN attrs.basePotential : attrs.basePotential[i] # "zero"

\* The attributes that depend on attribute a, directly or not, by the
\* dependencies in edges.
RECURSIVE DependOn(_, _)
DependOn(edges, S) ==
    LET T == S \cup {e[2] : e \in {d \in edges : d[1] \in S}}
    IN  IF T = S THEN S ELSE DependOn(edges, T)

\* C28: in initialize(), the two attributes of a dependency exist when the
\* dependency is declared; and once initialize() has succeeded no attribute
\* depends on itself and outputGeom depends on matrix, skeletonUpdate,
\* meshUpdate, basePotential and baseGradient.
C28_CreatedBeforeDeclared ==
    /\ [][\A e \in plugin'.declared \ plugin.declared :
              e[1] \in plugin.created /\ e[2] \in plugin.created]_vars
    /\ [](plugin.status = "kSuccess" =>
            /\ \A e \in plugin.declared :
                  e[1] \notin DependOn(plugin.declared, {e[2]})
            /\ \A a \in {"matrix", "skeletonUpdate", "meshUpdate", "basePotential",
                          "baseGradient"} :
                  "outputGeom" \in DependOn(plugin.declared, {a}))

\* C26: whenever deform runs deform_mesh, the Animated_mesh_ctrl that runs it
\* holds a base potential: set_base_potential was called on it, so it has a
\* potential for every vertex.
C26_DeformMeshHasBasePotential ==
    (last.op = "deform" /\ Called(last, "deform_mesh")) =>
        /\ deformer.animMesh.basePotential # NoBasePotential
        /\ deformer.animMesh.basePotential.size = deformer.animMesh.nverts

\* C27: when deform copies the result out, every vertex index of the input
\* geometry is smaller than the number of vertices of the animated mesh,
\* which is the size of result_verts.
C27_ResultVertsInRange ==
    (last.op = "deform" /\ last.written) =>
        \A vertex_index \in 0..attrs.geom.nverts - 1 :
            vertex_index < deformer.animMesh.nverts

\* A deform that met an input mesh with more vertices than the mesh that was
\* loaded, and wrote its output.
C27_Witness ==
    /\ last.op = "deform" /\ last.written
    /\ Called(last, "new Mesh") /\ ~Called(last, "load_skeleton")
    /\ Called(last, "copy_vertices")
    /\ attrs.geom.nverts = MaxVerts

\* C23: the parentJoint value of every surface whose source bone has a parent
\* is the index in surfaces[] of the surface created for the parent bone, and
\* it is -1 only for a bone without parent.
C23_ParentJointIsParentSurface ==
    (CmdDone /\ cmd.loadStatus = "kSuccess") =>
        \A i \in 0..(Len(cmd.surfaces) - 1) :
            LET parent == cmd.bones[cmd.surfaces[i + 1] + 1].parent
            IN  IF parent = -1 THEN cmd.parent_index[i + 1] = -1
                ELSE /\ cmd.parent_index[i + 1] \in 0..(Len(cmd.surfaces) - 1)
                     /\ cmd.surfaces[cmd.parent_index[i + 1] + 1] = parent

\* C24: after Abs_skeleton::load, _parents[b] of every influence b is the
\* logical index of the parent of b, the index at which the parent is stored
\* in _bones and dagPaths, and -1 when b has no parent.
C24_ParentsAreLogicalIndexes ==
    (CmdDone /\ cmd.loadStatus = "kSuccess") =>
        \A b \in DOMAIN influences :
            cmd.skel._parents[b + 1] =
                IF influences[b].parent = -1 THEN -1
                ELSE LogicalIndexes(influences)[influences[b].parent + 1]

\* C25: with more than one material element, the material groups are those of
\* the first element mapped eBY_POLYGON; when no element is mapped eBY_POLYGON
\* there is one group for all the new faces, with the material of the first
\* element.
C25_GroupsOfFirstByPolygon ==
    (fbxMesh.pc = "done" /\ Len(fbxMesh.elements) > 1) =>
        LET i == SearchByPolygon(fbxMesh.elements, 0)
            none == [k \in 0..fbxMesh.polygons - 1 |-> 0]
        IN  /\ Len(fbxMesh._groups) = 1
            /\ fbxMesh._groups[1]._assigned_mats =
                  IF i < Len(fbxMesh.elements)
                  THEN RegisterMaterialGroups(fbxMesh, fbxMesh.elements[i + 1], none, 0, <<>>)
                  ELSE AllSameGroup(fbxMesh, fbxMesh.elements[1], none)

\* C29: with one material element that is not mapped eALL_SAME, the material
\* groups partition the new faces: the first starts at f_size, each starts
\* where the one before it ends, the last ends at the new number of
\* triangles, none is empty, every face of a group has the material of the
\* group, and two groups in a row have different materials.
C29_GroupsPartitionFaces ==
    (fbxMesh.pc = "done" /\ Len(fbxMesh.elements) = 1
        /\ fbxMesh.elements[1].mode # "eALL_SAME") =>
        /\ Len(fbxMesh._groups) = 1
        /\ LET mats == fbxMesh._groups[1]._assigned_mats
               n    == Len(mats)
           IN  /\ fbxMesh.polygons > 0 =>
                     /\ n > 0
                     /\ mats[1]._start_face = fbxMesh.f_size
                     /\ mats[n]._end_face = fbxMesh.f_size + fbxMesh.polygons
               /\ fbxMesh.polygons = 0 => n = 0
               /\ \A k \in 1..n :
                     /\ mats[k]._start_face < mats[k]._end_face
                     /\ k < n => /\ mats[k + 1]._start_face = mats[k]._end_face
                                 /\ mats[k + 1]._material_idx # mats[k]._material_idx
                     /\ \A f \in mats[k]._start_face..mats[k]._end_face - 1 :
                           fbxMesh.m_size + fbxMesh.elements[1].index[f - fbxMesh.f_size + 1]
                               = mats[k]._material_idx

\* The groups of a mesh whose faces have a material, then another, then the
\* first again, added to a mesh that holds triangles and materials already.
C29_Witness ==
    /\ fbxMesh.pc = "done" /\ Len(fbxMesh.elements) = 1
    /\ fbxMesh.elements[1].mode = "eBY_POLYGON"
    /\ fbxMesh.f_size > 0 /\ fbxMesh.m_size > 0
    /\ fbxMesh.polygons = MaxPolygons
    /\ Len(fbxMesh._groups[1]._assigned_mats) = MaxPolygons

====
